---- MODULE Spec2Model ----
(***************************************************************************)
(* Ingestion job engine of the document-management backend:                *)
(* IngestionService (create / update / cancel / remove / handleWebhook /   *)
(* simulateIngestionProcess) on top of DocumentsService (create / findOne  *)
(* / findAll / update / remove / updateStatus), and UsersService (update / *)
(* remove / updateRole / updateUserStatus) on the stored accounts.         *)
(*                                                                         *)
(* The record store is atomic per call (findOne, save, delete); save       *)
(* writes the whole entity it is given and inserts it when the id is not   *)
(* stored.  create is split at the await between its status check and its  *)
(* writes, and the first timer callback at the await between its findOne   *)
(* and its save; update, cancel, remove and handleWebhook are one step     *)
(* each.                                                                   *)
(*                                                                         *)
(* Specifications:                                                         *)
(*   Spec        requests and timer callbacks in any interleaving          *)
(*   ObsSpec     the requests alone, each call recorded with its outcome   *)
(*   SimSpec     create and the timer callbacks alone                      *)
(*   CancelSpec  create, cancel and the timer callbacks alone              *)
(*   RaceSpec    upload and create alone, create calls overlapping         *)
(*   DeleteSpec  overlapping creates, the webhook and remove               *)
(*   DocSpec     upload, documents update and updateStatus                 *)
(*   ListSpec    uploads by several owners, create and the two lists       *)
(*   RemoveSpec  uploads by several owners, create and documents remove    *)
(*   SchedSpec   create calls one at a time and the timer callbacks        *)
(*   SeqSpec     create, update, cancel, webhook: one call at a time       *)
(*   UsersSpec   the user administration requests                          *)
(*   ViewSpec    upload, create and the two findOne requests               *)
(***************************************************************************)
EXTENDS Integers, FiniteSets, Sequences, Bags, TLC

\* ---------------------------------------------------------------- bounds
MaxDocs == 1          \* documents that are ever uploaded
MaxJobs == 1          \* job records that are ever created
MaxTime == 3          \* readings of the clock (new Date())
MaxInFlight == 1      \* create calls between their check and their write
MaxRaceJobs == 2      \* job records created by concurrent create calls
MaxListDocs == 2      \* documents uploaded before the lists are read

\* ------------------------------------------------------------- constants
Null == 0             \* a nullable timestamp column that is unset

\* UserRole
ADMIN == "admin"
EDITOR == "editor"
VIEWER == "viewer"

\* the actors: user.id of the authenticated user, with user.role
Users == {"a1", "e1", "v1"}
RoleOf(u) == CASE u = "a1" -> ADMIN
               [] u = "e1" -> EDITOR
               [] OTHER -> VIEWER

\* DocumentStatus
UPLOADED == "uploaded"
PROCESSING == "processing"
PROCESSED == "processed"
DOC_FAILED == "failed"
DocumentStatus == {UPLOADED, PROCESSING, PROCESSED, DOC_FAILED}

\* IngestionStatus
PENDING == "pending"
RUNNING == "running"
COMPLETED == "completed"
FAILED == "failed"
CANCELLED == "cancelled"
IngestionStatus == {PENDING, RUNNING, COMPLETED, FAILED, CANCELLED}
Terminal == {COMPLETED, FAILED, CANCELLED}

\* ids a caller can name: the ids that can exist, and one that never does
DocIds == 1..(MaxDocs + 1)
JobIds == 1..(MaxJobs + 1)

\* UpdateIngestionJobDto: every field is optional
Absent == "absent"
NoText == "null"
Dto(s, e, r) == [status |-> s, errorMessage |-> e, result |-> r]
UpdateIngestionJobDto ==
  {Dto(s, Absent, Absent) : s \in IngestionStatus \cup {Absent}}
    \cup {Dto(FAILED, "err", Absent), Dto(COMPLETED, Absent, "res")}

\* UserRole, and the user ids a caller can name: the registered ones and
\* one that is not
UserRole == {ADMIN, EDITOR, VIEWER}
UserIds == Users \cup {"u0"}

\* UpdateUserDto: a profile field and role, each optional
UserDto(f, r) == [firstName |-> f, role |-> r]
UpdateUserDto ==
  {UserDto(f, r) : f \in {Absent, "Updated"}, r \in UserRole \cup {Absent}}

\* UpdateDocumentDto: description, metadata and status, each optional
DocDto(d, m, s) == [description |-> d, metadata |-> m, status |-> s]
UpdateDocumentDto ==
  {DocDto(d, m, s) : d \in {Absent, "text"}, m \in {Absent, "meta"},
                     s \in DocumentStatus \cup {Absent}}

\* every combination of present and absent fields of the dto
EveryDto ==
  {Dto(s, e, r) : s \in IngestionStatus \cup {Absent},
                  e \in {Absent, "err"}, r \in {Absent, "res"}}

\* the canned payload of the simulated processor
CannedResult == "canned"

VARIABLES
  docs,      \* documentsRepository: id -> [status, uploadedById,
             \*                             description, metadata]
  jobs,      \* ingestionJobsRepository: id -> job record
  nextJob,   \* the next generated job id
  now,       \* the clock read by new Date()
  creating,  \* bag of create calls that passed the status check
  sim,       \* scheduled timer callbacks: job id -> [pc, job]
  disk,      \* upload directory: file of each document ever uploaded ->
             \* whether the file is there
  users,     \* usersRepository: id -> [role, isActive, firstName]
  last       \* the call that has just returned or raised, and how (recorded
             \* only in behaviours that start with the recorder on)

vars == <<docs, jobs, nextJob, now, creating, sim, disk, users, last>>

\* the accounts that exist when the requests start: the seeded admin and
\* one registered user of each other role, all active
RegisteredUsers ==
  [u \in Users |-> [role |-> RoleOf(u), isActive |-> TRUE, firstName |-> "John"]]

NoCall == [op |-> "none", user |-> "none", id |-> 0, outcome |-> "none"]
Unobserved == [op |-> "unobserved", user |-> "none", id |-> 0, outcome |-> "none"]
Call(op, u, id, outcome) ==
  IF last = Unobserved THEN Unobserved
  ELSE [op |-> op, user |-> u, id |-> id, outcome |-> outcome]

Init ==
  /\ docs = << >>
  /\ jobs = << >>
  /\ nextJob = 1
  /\ now = 0
  /\ creating = EmptyBag
  /\ sim = << >>
  /\ disk = << >>
  /\ users = RegisteredUsers
  /\ last = Unobserved

\* the same start, with the recorder of calls on
ObsInit ==
  /\ docs = << >>
  /\ jobs = << >>
  /\ nextJob = 1
  /\ now = 0
  /\ creating = EmptyBag
  /\ sim = << >>
  /\ disk = << >>
  /\ users = RegisteredUsers
  /\ last = NoCall

\* ------------------------------------------------------ record store
\* repository.save(entity): insert or overwrite the record with that id
Save(store, id, rec) ==
  [k \in (DOMAIN store) \cup {id} |-> IF k = id THEN rec ELSE store[k]]

\* repository.delete(id)
Delete_m(store, id) == [k \in {j \in DOMAIN store : j > id} |-> store[k]]
Delete(store, id) == [k \in (DOMAIN store) \ {id} |-> store[k]]

\* ------------------------------------------------- DocumentsService
\* DocumentsService.create: the uploader owns the document, status uploaded
DocumentsService_create(u) ==
  /\ LET id == Cardinality(DOMAIN disk) + 1 IN
       /\ disk' = Save(disk, id, TRUE)
       /\ docs' = Save(docs, id, [status |-> UPLOADED, uploadedById |-> u,
                                  description |-> NoText, metadata |-> NoText])
       /\ last' = Call("upload", u, id, "ok")
  /\ UNCHANGED <<jobs, nextJob, now, creating, sim, users>>

\* DocumentsService.findOne: existence first, then admin-or-owner
Documents_findOne_m2(ds, id, u) ==
  IF id \notin DOMAIN ds THEN "NotFound" ELSE "ok"
Documents_findOne_m(ds, id, u) ==
  IF id \notin DOMAIN ds THEN "NotFound"
  ELSE IF ds[id].uploadedById # u THEN "Forbidden"
  ELSE "ok"
Documents_findOne(ds, id, u) ==
  IF id \notin DOMAIN ds THEN "NotFound"
  ELSE IF RoleOf(u) # ADMIN /\ ds[id].uploadedById # u THEN "Forbidden"
  ELSE "ok"

\* DocumentsService.findOne as a request: the document or the exception
DocumentsService_findOne(id, u) ==
  /\ last' = Call("docFindOne", u, id, Documents_findOne(docs, id, u))
  /\ UNCHANGED <<docs, jobs, nextJob, now, creating, sim, disk, users>>

\* DocumentsService.findAll: the query over every document, narrowed to
\* the actor's own for a non-admin; the ids of the rows it returns
Documents_findAll_m(u) == DOMAIN docs
Documents_findAll(u) ==
  LET query == DOMAIN docs IN
    IF RoleOf(u) # ADMIN
      THEN {d \in query : docs[d].uploadedById = u}
      ELSE query

\* DocumentsService.findAll as a request
DocumentsService_findAll(u) ==
  /\ last' = Call("docFindAll", u, Null, Documents_findAll(u))
  /\ UNCHANGED <<docs, jobs, nextJob, now, creating, sim, disk, users>>

\* Object.assign(document, updateDocumentDto)
AssignDocument(document, dto) ==
  [document EXCEPT
     !.description = IF dto.description = Absent THEN @ ELSE dto.description,
     !.metadata = IF dto.metadata = Absent THEN @ ELSE dto.metadata,
     !.status = IF dto.status = Absent THEN @ ELSE dto.status]

\* DocumentsService.update: existence, then admin-or-owner, then the status
\* field for admins only, then the merge and the save
DocumentsService_update_m(id, updateDocumentDto, u) ==
  IF id \notin DOMAIN docs
    THEN /\ last' = Call("docUpdate", u, id, "NotFound")
         /\ UNCHANGED <<docs, jobs, nextJob, now, creating, sim, disk, users>>
  ELSE IF RoleOf(u) # ADMIN /\ docs[id].uploadedById # u
    THEN /\ last' = Call("docUpdate", u, id, "Forbidden")
         /\ UNCHANGED <<docs, jobs, nextJob, now, creating, sim, disk, users>>
  ELSE /\ docs' = Save(docs, id, AssignDocument(docs[id], updateDocumentDto))
       /\ last' = Call("docUpdate", u, id, "ok")
       /\ UNCHANGED <<jobs, nextJob, now, creating, sim, disk, users>>
DocumentsService_update(id, updateDocumentDto, u) ==
  IF id \notin DOMAIN docs
    THEN /\ last' = Call("docUpdate", u, id, "NotFound")
         /\ UNCHANGED <<docs, jobs, nextJob, now, creating, sim, disk, users>>
  ELSE IF RoleOf(u) # ADMIN /\ docs[id].uploadedById # u
    THEN /\ last' = Call("docUpdate", u, id, "Forbidden")
         /\ UNCHANGED <<docs, jobs, nextJob, now, creating, sim, disk, users>>
  ELSE IF updateDocumentDto.status # Absent /\ RoleOf(u) # ADMIN
    THEN /\ last' = Call("docUpdate", u, id, "Forbidden")
         /\ UNCHANGED <<docs, jobs, nextJob, now, creating, sim, disk, users>>
  ELSE /\ docs' = Save(docs, id, AssignDocument(docs[id], updateDocumentDto))
       /\ last' = Call("docUpdate", u, id, "ok")
       /\ UNCHANGED <<jobs, nextJob, now, creating, sim, disk, users>>

\* DocumentsService.remove: existence, then admin-or-owner, then the file
\* is unlinked when it is there, then the record is removed; the removal
\* is refused by the store while a job still refers to the document
DocumentsService_remove_m(id, u) ==
  IF id \notin DOMAIN docs
    THEN /\ last' = Call("docRemove", u, id, "NotFound")
         /\ UNCHANGED <<docs, jobs, nextJob, now, creating, sim, disk, users>>
  ELSE IF RoleOf(u) # ADMIN /\ docs[id].uploadedById # u
    THEN /\ last' = Call("docRemove", u, id, "Forbidden")
         /\ UNCHANGED <<docs, jobs, nextJob, now, creating, sim, disk, users>>
  ELSE IF \E j \in DOMAIN jobs : jobs[j].documentId = id
    THEN /\ last' = Call("docRemove", u, id, "QueryFailed")
         /\ UNCHANGED <<docs, jobs, nextJob, now, creating, sim, disk, users>>
  ELSE /\ docs' = Delete(docs, id)
       /\ last' = Call("docRemove", u, id, "ok")
       /\ UNCHANGED <<jobs, nextJob, now, creating, sim, disk, users>>
DocumentsService_remove(id, u) ==
  IF id \notin DOMAIN docs
    THEN /\ last' = Call("docRemove", u, id, "NotFound")
         /\ UNCHANGED <<docs, jobs, nextJob, now, creating, sim, disk, users>>
  ELSE IF RoleOf(u) # ADMIN /\ docs[id].uploadedById # u
    THEN /\ last' = Call("docRemove", u, id, "Forbidden")
         /\ UNCHANGED <<docs, jobs, nextJob, now, creating, sim, disk, users>>
  ELSE /\ disk' = IF disk[id] THEN [disk EXCEPT ![id] = FALSE] ELSE disk
       /\ IF \E j \in DOMAIN jobs : jobs[j].documentId = id
            THEN /\ last' = Call("docRemove", u, id, "QueryFailed")
                 /\ UNCHANGED docs
            ELSE /\ docs' = Delete(docs, id)
                 /\ last' = Call("docRemove", u, id, "ok")
       /\ UNCHANGED <<jobs, nextJob, now, creating, sim, users>>

\* DocumentsService.updateStatus: role first, then existence, then the write
Documents_updateStatus(ds, id, status, u) ==
  IF RoleOf(u) # ADMIN THEN [outcome |-> "Forbidden", docs |-> ds]
  ELSE IF id \notin DOMAIN ds THEN [outcome |-> "NotFound", docs |-> ds]
  ELSE [outcome |-> "ok", docs |-> [ds EXCEPT ![id].status = status]]

\* DocumentsService.updateStatus as a request of its own
DocumentsService_updateStatus(id, status, u) ==
  LET us == Documents_updateStatus(docs, id, status, u) IN
    /\ docs' = us.docs
    /\ last' = Call("docUpdateStatus", u, id, us.outcome)
    /\ UNCHANGED <<jobs, nextJob, now, creating, sim, disk, users>>

\* ----------------------------------------------------- UsersService
\* the authenticated user of a request: a stored account, with the role it
\* has when the request is made
CurrentUser(a) == [id |-> a, role |-> users[a].role]

\* Object.assign(user, updateUserDto)
AssignUser(user, dto) ==
  [user EXCEPT
     !.firstName = IF dto.firstName = Absent THEN @ ELSE dto.firstName,
     !.role = IF dto.role = Absent THEN @ ELSE dto.role]

\* UsersService.update: existence, then the role field for admins only,
\* then self-or-admin, then the merge and the save
UsersService_update_m(id, updateUserDto, a) ==
  LET currentUser == CurrentUser(a) IN
  IF id \notin DOMAIN users
    THEN /\ last' = Call("userUpdate", a, id, "NotFound")
         /\ UNCHANGED <<docs, jobs, nextJob, now, creating, sim, disk, users>>
  ELSE IF currentUser.role # ADMIN /\ currentUser.id # id
    THEN /\ last' = Call("userUpdate", a, id, "Forbidden")
         /\ UNCHANGED <<docs, jobs, nextJob, now, creating, sim, disk, users>>
  ELSE /\ users' = Save(users, id, AssignUser(users[id], updateUserDto))
       /\ last' = Call("userUpdate", a, id, "ok")
       /\ UNCHANGED <<docs, jobs, nextJob, now, creating, sim, disk>>
UsersService_update(id, updateUserDto, a) ==
  LET currentUser == CurrentUser(a) IN
  IF id \notin DOMAIN users
    THEN /\ last' = Call("userUpdate", a, id, "NotFound")
         /\ UNCHANGED <<docs, jobs, nextJob, now, creating, sim, disk, users>>
  ELSE IF updateUserDto.role # Absent /\ currentUser.role # ADMIN
    THEN /\ last' = Call("userUpdate", a, id, "Forbidden")
         /\ UNCHANGED <<docs, jobs, nextJob, now, creating, sim, disk, users>>
  ELSE IF currentUser.role # ADMIN /\ currentUser.id # id
    THEN /\ last' = Call("userUpdate", a, id, "Forbidden")
         /\ UNCHANGED <<docs, jobs, nextJob, now, creating, sim, disk, users>>
  ELSE /\ users' = Save(users, id, AssignUser(users[id], updateUserDto))
       /\ last' = Call("userUpdate", a, id, "ok")
       /\ UNCHANGED <<docs, jobs, nextJob, now, creating, sim, disk>>

\* UsersService.remove: role, then self, then the delete and its row count
UsersService_remove_m(id, a) ==
  LET currentUser == CurrentUser(a) IN
  IF currentUser.role # ADMIN
    THEN /\ last' = Call("userRemove", a, id, "Forbidden")
         /\ UNCHANGED <<docs, jobs, nextJob, now, creating, sim, disk, users>>
  ELSE IF id \notin DOMAIN users
    THEN /\ last' = Call("userRemove", a, id, "NotFound")
         /\ UNCHANGED <<docs, jobs, nextJob, now, creating, sim, disk, users>>
  ELSE /\ users' = Delete(users, id)
       /\ last' = Call("userRemove", a, id, "ok")
       /\ UNCHANGED <<docs, jobs, nextJob, now, creating, sim, disk>>
UsersService_remove(id, a) ==
  LET currentUser == CurrentUser(a) IN
  IF currentUser.role # ADMIN
    THEN /\ last' = Call("userRemove", a, id, "Forbidden")
         /\ UNCHANGED <<docs, jobs, nextJob, now, creating, sim, disk, users>>
  ELSE IF currentUser.id = id
    THEN /\ last' = Call("userRemove", a, id, "Forbidden")
         /\ UNCHANGED <<docs, jobs, nextJob, now, creating, sim, disk, users>>
  ELSE IF id \notin DOMAIN users
    THEN /\ last' = Call("userRemove", a, id, "NotFound")
         /\ UNCHANGED <<docs, jobs, nextJob, now, creating, sim, disk, users>>
  ELSE /\ users' = Delete(users, id)
       /\ last' = Call("userRemove", a, id, "ok")
       /\ UNCHANGED <<docs, jobs, nextJob, now, creating, sim, disk>>

\* UsersService.updateRole: role, then existence, then the new role
UsersService_updateRole(id, role, a) ==
  LET currentUser == CurrentUser(a) IN
  IF currentUser.role # ADMIN
    THEN /\ last' = Call("updateRole", a, id, "Forbidden")
         /\ UNCHANGED <<docs, jobs, nextJob, now, creating, sim, disk, users>>
  ELSE IF id \notin DOMAIN users
    THEN /\ last' = Call("updateRole", a, id, "NotFound")
         /\ UNCHANGED <<docs, jobs, nextJob, now, creating, sim, disk, users>>
  ELSE /\ users' = Save(users, id, [users[id] EXCEPT !.role = role])
       /\ last' = Call("updateRole", a, id, "ok")
       /\ UNCHANGED <<docs, jobs, nextJob, now, creating, sim, disk>>

\* UsersService.updateUserStatus: role, then self, then existence, then the
\* active flag is flipped
UsersService_updateUserStatus(id, a) ==
  LET currentUser == CurrentUser(a) IN
  IF currentUser.role # ADMIN
    THEN /\ last' = Call("updateUserStatus", a, id, "Forbidden")
         /\ UNCHANGED <<docs, jobs, nextJob, now, creating, sim, disk, users>>
  ELSE IF currentUser.id = id
    THEN /\ last' = Call("updateUserStatus", a, id, "Forbidden")
         /\ UNCHANGED <<docs, jobs, nextJob, now, creating, sim, disk, users>>
  ELSE IF id \notin DOMAIN users
    THEN /\ last' = Call("updateUserStatus", a, id, "NotFound")
         /\ UNCHANGED <<docs, jobs, nextJob, now, creating, sim, disk, users>>
  ELSE /\ users' = Save(users, id, [users[id] EXCEPT !.isActive = ~@])
       /\ last' = Call("updateUserStatus", a, id, "ok")
       /\ UNCHANGED <<docs, jobs, nextJob, now, creating, sim, disk>>

\* ------------------------------------------------- IngestionService
\* what a callback holds before its findOne has returned a record
NoJob == [documentId |-> 0, status |-> "none", errorMessage |-> NoText,
          result |-> NoText, startedAt |-> Null, completedAt |-> Null]

\* new Date(): every reading of the clock is later than the one before
Date == now + 1

\* IngestionService.findOne: existence first, then admin-or-owner of the
\* job's document
Ingestion_findOne_m(id, u) ==
  IF id \notin DOMAIN jobs THEN "NotFound"
  ELSE IF RoleOf(u) # ADMIN THEN "Forbidden"
  ELSE "ok"
Ingestion_findOne(id, u) ==
  IF id \notin DOMAIN jobs THEN "NotFound"
  ELSE IF RoleOf(u) # ADMIN /\ docs[jobs[id].documentId].uploadedById # u
       THEN "Forbidden"
  ELSE "ok"

\* IngestionService.findOne as a request: the job or the exception
IngestionService_findOne(id, u) ==
  /\ last' = Call("findOne", u, id, Ingestion_findOne(id, u))
  /\ UNCHANGED <<docs, jobs, nextJob, now, creating, sim, disk, users>>

\* IngestionService.findAll: the query over every job joined with its
\* document, narrowed to the actor's documents for a non-admin
Ingestion_findAll(u) ==
  LET query == DOMAIN jobs IN
    IF RoleOf(u) # ADMIN
      THEN {j \in query : docs[jobs[j].documentId].uploadedById = u}
      ELSE query

\* IngestionService.findAll as a request
IngestionService_findAll(u) ==
  /\ last' = Call("findAll", u, Null, Ingestion_findAll(u))
  /\ UNCHANGED <<docs, jobs, nextJob, now, creating, sim, disk, users>>

\* create's guard against a second job in flight: the status it refuses
AlreadyProcessing_m(document) == document.status = PROCESSED
AlreadyProcessing(document) == document.status = PROCESSING

\* create, up to the status check: findOne of the document as the actor,
\* then BadRequest when the document is processing
IngestionService_create_check(d, u) ==
  LET found == Documents_findOne(docs, d, u) IN
  /\ IF found # "ok"
       THEN /\ last' = Call("create", u, d, found)
            /\ UNCHANGED creating
     ELSE IF AlreadyProcessing(docs[d])
       THEN /\ last' = Call("create", u, d, "BadRequest")
            /\ UNCHANGED creating
     ELSE /\ creating' = creating (+) SetToBag({[documentId |-> d, user |-> u]})
          /\ last' = Call("create", u, d, "awaiting")
  /\ UNCHANGED <<docs, jobs, nextJob, now, sim, disk, users>>

\* @PrimaryGeneratedColumn: the id of the record that save inserts
GeneratedId_m ==
  IF DOMAIN jobs = {} THEN nextJob ELSE CHOOSE j \in DOMAIN jobs : TRUE
GeneratedId == nextJob

\* create, after the check: save the pending job, set the document
\* processing as the actor, schedule the timers, return the saved job
IngestionService_create_write_m(c) ==
  /\ BagIn(c, creating)
  /\ LET id == GeneratedId
         ingestionJob == [documentId |-> c.documentId, status |-> PENDING,
                          errorMessage |-> NoText, result |-> NoText,
                          startedAt |-> Null, completedAt |-> Null]
         us == Documents_updateStatus(docs, c.documentId, PROCESSING, c.user)
     IN
       /\ jobs' = Save(jobs, id, ingestionJob)
       /\ nextJob' = nextJob + 1
       /\ docs' = us.docs
       /\ sim' = Save(sim, id, [pc |-> "t1", job |-> NoJob])
       /\ last' = Call("create", c.user, c.documentId, us.outcome)
  /\ creating' = creating (-) SetToBag({c})
  /\ UNCHANGED <<now, disk, users>>
IngestionService_create_write(c) ==
  /\ BagIn(c, creating)
  /\ LET id == GeneratedId
         ingestionJob == [documentId |-> c.documentId, status |-> PENDING,
                          errorMessage |-> NoText, result |-> NoText,
                          startedAt |-> Null, completedAt |-> Null]
         us == Documents_updateStatus(docs, c.documentId, PROCESSING, c.user)
     IN
       /\ jobs' = Save(jobs, id, ingestionJob)
       /\ nextJob' = nextJob + 1
       /\ docs' = us.docs
       /\ sim' = IF us.outcome = "ok"
                   THEN Save(sim, id, [pc |-> "t1", job |-> NoJob])
                   ELSE sim
       /\ last' = Call("create", c.user, c.documentId, us.outcome)
  /\ creating' = creating (-) SetToBag({c})
  /\ UNCHANGED <<now, disk, users>>

\* Object.assign(job, dto): the fields the dto carries overwrite the job's
Assign(job, dto) ==
  [job EXCEPT
     !.status = IF dto.status = Absent THEN @ ELSE dto.status,
     !.errorMessage = IF dto.errorMessage = Absent THEN @ ELSE dto.errorMessage,
     !.result = IF dto.result = Absent THEN @ ELSE dto.result]

\* the job record update saves: the dto merged, then the two timestamps
update_job_m(job, updateIngestionJobDto) ==
  LET job0 == Assign(job, updateIngestionJobDto)
  IN IF updateIngestionJobDto.status = RUNNING /\ job0.startedAt = Null
       THEN [job0 EXCEPT !.startedAt = Date] ELSE job0
update_job(job, updateIngestionJobDto) ==
  LET job0 == Assign(job, updateIngestionJobDto)
      job1 == IF updateIngestionJobDto.status = RUNNING /\ job0.startedAt = Null
                THEN [job0 EXCEPT !.startedAt = Date] ELSE job0
  IN IF /\ updateIngestionJobDto.status \in {COMPLETED, FAILED, CANCELLED}
        /\ job1.completedAt = Null
       THEN [job1 EXCEPT !.completedAt = Date] ELSE job1

\* the job record handleWebhook saves
handleWebhook_job_m2(job, updateData) ==
  LET job0 == Assign(job, updateData)
  IN IF /\ updateData.status \in {COMPLETED, FAILED, CANCELLED}
        /\ job0.completedAt = Null
       THEN [job0 EXCEPT !.completedAt = Date] ELSE job0
handleWebhook_job_m(job, updateData) ==
  LET job0 == Assign(job, updateData)
      job1 == IF updateData.status = RUNNING /\ job0.startedAt = Null
                THEN [job0 EXCEPT !.startedAt = Date] ELSE job0
  IN IF /\ updateData.status \in {COMPLETED, FAILED}
        /\ job1.completedAt = Null
       THEN [job1 EXCEPT !.completedAt = Date] ELSE job1
handleWebhook_job(job, updateData) ==
  LET job0 == Assign(job, updateData)
      job1 == IF updateData.status = RUNNING /\ job0.startedAt = Null
                THEN [job0 EXCEPT !.startedAt = Date] ELSE job0
  IN IF /\ updateData.status \in {COMPLETED, FAILED, CANCELLED}
        /\ job1.completedAt = Null
       THEN [job1 EXCEPT !.completedAt = Date] ELSE job1

\* IngestionService.update
IngestionService_update(id, dto, u) ==
  LET found == Ingestion_findOne(id, u) IN
  IF found # "ok"
    THEN /\ last' = Call("update", u, id, found)
         /\ UNCHANGED <<docs, jobs, nextJob, now, creating, sim, disk, users>>
  ELSE IF RoleOf(u) # ADMIN
    THEN /\ last' = Call("update", u, id, "Forbidden")
         /\ UNCHANGED <<docs, jobs, nextJob, now, creating, sim, disk, users>>
  ELSE
    LET job0 == Assign(jobs[id], dto)
        starts == dto.status = RUNNING /\ job0.startedAt = Null
        ends == dto.status \in Terminal /\ job0.completedAt = Null
        job2 == update_job(jobs[id], dto)
        documentStatus == IF dto.status = COMPLETED THEN PROCESSED ELSE DOC_FAILED
        us == IF ends
                THEN Documents_updateStatus(docs, job2.documentId, documentStatus, u)
                ELSE [outcome |-> "ok", docs |-> docs]
    IN
      /\ (starts \/ ends) => now < MaxTime
      /\ now' = IF starts \/ ends THEN Date ELSE now
      /\ docs' = us.docs
      /\ jobs' = IF us.outcome = "ok" THEN Save(jobs, id, job2) ELSE jobs
      /\ last' = Call("update", u, id, us.outcome)
      /\ UNCHANGED <<nextJob, creating, sim, disk, users>>

\* the statuses on which cancel raises BadRequest
CancelRejects_m == {COMPLETED}
CancelRejects == {COMPLETED, FAILED}

\* IngestionService.cancel
IngestionService_cancel(id, u) ==
  LET found == Ingestion_findOne(id, u) IN
  IF found # "ok"
    THEN /\ last' = Call("cancel", u, id, found)
         /\ UNCHANGED <<docs, jobs, nextJob, now, creating, sim, disk, users>>
  ELSE IF jobs[id].status \in CancelRejects
    THEN /\ last' = Call("cancel", u, id, "BadRequest")
         /\ UNCHANGED <<docs, jobs, nextJob, now, creating, sim, disk, users>>
  ELSE IF RoleOf(u) # ADMIN /\ docs[jobs[id].documentId].uploadedById # u
    THEN /\ last' = Call("cancel", u, id, "Forbidden")
         /\ UNCHANGED <<docs, jobs, nextJob, now, creating, sim, disk, users>>
  ELSE
    LET job == [jobs[id] EXCEPT !.status = CANCELLED, !.completedAt = Date]
        us == Documents_updateStatus(docs, job.documentId, UPLOADED, u)
    IN
      /\ now < MaxTime
      /\ now' = Date
      /\ jobs' = Save(jobs, id, job)
      /\ docs' = us.docs
      /\ last' = Call("cancel", u, id, us.outcome)
      /\ UNCHANGED <<nextJob, creating, sim, disk, users>>

\* IngestionService.remove: role first, then the delete and its row count
IngestionService_remove_m(id, u) ==
  IF id \notin DOMAIN jobs
    THEN /\ last' = Call("remove", u, id, "NotFound")
         /\ UNCHANGED <<docs, jobs, nextJob, now, creating, sim, disk, users>>
  ELSE /\ jobs' = Delete(jobs, id)
       /\ last' = Call("remove", u, id, "ok")
       /\ UNCHANGED <<docs, nextJob, now, creating, sim, disk, users>>
IngestionService_remove(id, u) ==
  IF RoleOf(u) # ADMIN
    THEN /\ last' = Call("remove", u, id, "Forbidden")
         /\ UNCHANGED <<docs, jobs, nextJob, now, creating, sim, disk, users>>
  ELSE IF id \notin DOMAIN jobs
    THEN /\ last' = Call("remove", u, id, "NotFound")
         /\ UNCHANGED <<docs, jobs, nextJob, now, creating, sim, disk, users>>
  ELSE /\ jobs' = Delete(jobs, id)
       /\ last' = Call("remove", u, id, "ok")
       /\ UNCHANGED <<docs, nextJob, now, creating, sim, disk, users>>

\* IngestionService.handleWebhook: no actor
IngestionService_handleWebhook_m2(jobId, updateData) ==
  IF jobId \notin DOMAIN jobs
    THEN /\ last' = Call("webhook", "none", jobId, "NotFound")
         /\ UNCHANGED <<docs, jobs, nextJob, now, creating, sim, disk, users>>
  ELSE
    LET job2 == handleWebhook_job(jobs[jobId], updateData)
        ends == updateData.status \in {COMPLETED, FAILED}
    IN
      /\ job2 # jobs[jobId] => now < MaxTime
      /\ now' = IF job2 # jobs[jobId] THEN Date ELSE now
      /\ jobs' = Save(jobs, jobId, job2)
      /\ docs' = IF ends
                   THEN [docs EXCEPT ![job2.documentId].status =
                           IF updateData.status = COMPLETED THEN PROCESSED
                           ELSE DOC_FAILED]
                   ELSE docs
      /\ last' = Call("webhook", "none", jobId, "ok")
      /\ UNCHANGED <<nextJob, creating, sim, disk, users>>
IngestionService_handleWebhook_m(jobId, updateData) ==
  LET job == IF jobId \in DOMAIN jobs THEN jobs[jobId] ELSE NoJob IN
    /\ jobs' = Save(jobs, jobId, Assign(job, updateData))
    /\ last' = Call("webhook", "none", jobId, "ok")
    /\ UNCHANGED <<docs, nextJob, now, creating, sim, disk, users>>
IngestionService_handleWebhook(jobId, updateData) ==
  IF jobId \notin DOMAIN jobs
    THEN /\ last' = Call("webhook", "none", jobId, "NotFound")
         /\ UNCHANGED <<docs, jobs, nextJob, now, creating, sim, disk, users>>
  ELSE
    LET job0 == Assign(jobs[jobId], updateData)
        starts == updateData.status = RUNNING /\ job0.startedAt = Null
        ends == updateData.status \in Terminal /\ job0.completedAt = Null
        job2 == handleWebhook_job(jobs[jobId], updateData)
    IN
      /\ (starts \/ ends) => now < MaxTime
      /\ now' = IF starts \/ ends THEN Date ELSE now
      /\ jobs' = Save(jobs, jobId, job2)
      /\ last' = Call("webhook", "none", jobId, "ok")
      /\ UNCHANGED <<docs, nextJob, creating, sim, disk, users>>

\* simulateIngestionProcess, first callback: findOne, and on the record it
\* returned the callback at once sets running and startedAt (the save is
\* the next step); a job that is gone ends the chain
simulateIngestionProcess_read(jobId) ==
  /\ jobId \in DOMAIN sim
  /\ sim[jobId].pc = "t1"
  /\ IF jobId \in DOMAIN jobs
       THEN /\ now < MaxTime
            /\ sim' = [sim EXCEPT ![jobId] =
                         [pc |-> "t1w",
                          job |-> [jobs[jobId] EXCEPT !.status = RUNNING,
                                                      !.startedAt = Date]]]
            /\ now' = Date
       ELSE /\ sim' = [sim EXCEPT ![jobId] = [pc |-> "done", job |-> NoJob]]
            /\ UNCHANGED now
  /\ last' = Call("timer", "none", jobId, "ok")
  /\ UNCHANGED <<docs, jobs, nextJob, creating, disk, users>>

\* first callback, its save; the second timer is set and keeps the same
\* job object
simulateIngestionProcess_running_m(jobId) ==
  /\ jobId \in DOMAIN sim
  /\ sim[jobId].pc = "t1w"
  /\ sim' = [sim EXCEPT ![jobId].pc = "t2"]
  /\ last' = Call("timer", "none", jobId, "ok")
  /\ UNCHANGED <<docs, jobs, nextJob, now, creating, disk, users>>
simulateIngestionProcess_running(jobId) ==
  /\ jobId \in DOMAIN sim
  /\ sim[jobId].pc = "t1w"
  /\ jobs' = Save(jobs, jobId, sim[jobId].job)
  /\ sim' = [sim EXCEPT ![jobId].pc = "t2"]
  /\ last' = Call("timer", "none", jobId, "ok")
  /\ UNCHANGED <<docs, nextJob, now, creating, disk, users>>

\* second callback: completed, completedAt, the canned result, save
simulateIngestionProcess_completed(jobId) ==
  /\ jobId \in DOMAIN sim
  /\ sim[jobId].pc = "t2"
  /\ now < MaxTime
  /\ LET job == [sim[jobId].job EXCEPT !.status = COMPLETED,
                                       !.completedAt = Date,
                                       !.result = CannedResult] IN
       /\ jobs' = Save(jobs, jobId, job)
       /\ sim' = [sim EXCEPT ![jobId] = [pc |-> "done", job |-> job]]
  /\ now' = Date
  /\ last' = Call("timer", "none", jobId, "ok")
  /\ UNCHANGED <<docs, nextJob, creating, disk, users>>

\* ------------------------------------------------------ specification
\* the requests: each handler with its inputs
Upload ==
  \E u \in Users :
    /\ Cardinality(DOMAIN disk) < MaxDocs
    /\ DocumentsService_create(u)
\* a create call that passes its check is admitted only while a call slot
\* and a job id are left for it
PassesCheck(d, u) ==
  Documents_findOne(docs, d, u) = "ok" /\ docs[d].status # PROCESSING
CreateCheck ==
  \E d \in DocIds, u \in Users :
    /\ PassesCheck(d, u) =>
         /\ BagCardinality(creating) < MaxInFlight
         /\ nextJob + BagCardinality(creating) <= MaxJobs
    /\ IngestionService_create_check(d, u)
CreateWrite ==
  \E c \in BagToSet(creating) : IngestionService_create_write(c)
Update ==
  \E id \in JobIds, dto \in UpdateIngestionJobDto, u \in Users :
    IngestionService_update(id, dto, u)
Cancel == \E id \in JobIds, u \in Users : IngestionService_cancel(id, u)
Remove == \E id \in JobIds, u \in Users : IngestionService_remove(id, u)
Webhook ==
  \E id \in JobIds, dto \in UpdateIngestionJobDto :
    IngestionService_handleWebhook(id, dto)
\* the timer callbacks
TimerRead == \E j \in JobIds : simulateIngestionProcess_read(j)
TimerRunning == \E j \in JobIds : simulateIngestionProcess_running(j)
TimerCompleted == \E j \in JobIds : simulateIngestionProcess_completed(j)

Requests ==
  \/ Upload
  \/ CreateCheck
  \/ CreateWrite
  \/ Update
  \/ Cancel
  \/ Remove
  \/ Webhook

Timers ==
  \/ TimerRead
  \/ TimerRunning
  \/ TimerCompleted

Next ==
  \/ Requests
  \/ Timers

\* requests and timer callbacks in any interleaving
Spec == Init /\ [][Next]_vars

\* the requests alone, each call recorded with its outcome: the window in
\* which no timer fires
ObsNext == Requests
ObsSpec == ObsInit /\ [][ObsNext]_vars

TypeOK ==
  /\ DOMAIN docs \subseteq DocIds
  /\ \A d \in DOMAIN docs : docs[d].status \in DocumentStatus
  /\ \A j \in DOMAIN jobs : jobs[j].status \in IngestionStatus
  /\ now \in 0..MaxTime

\* create and the timers alone: the simulated lifecycle with no cancel,
\* admin update, webhook or delete
SimNext ==
  \/ Upload
  \/ CreateCheck
  \/ CreateWrite
  \/ Timers
SimSpec == ObsInit /\ [][SimNext]_vars

\* create, cancel and the timers alone: cancel in every position among the
\* callbacks that create scheduled
CancelNext ==
  \/ Upload
  \/ CreateCheck
  \/ CreateWrite
  \/ Cancel
  \/ Timers
CancelSpec == ObsInit /\ [][CancelNext]_vars

\* upload and create alone, with as many create calls between check and
\* write as there are job ids
RaceCreateCheck ==
  \E d \in DocIds, u \in Users :
    /\ PassesCheck(d, u) =>
         nextJob + BagCardinality(creating) <= MaxRaceJobs
    /\ IngestionService_create_check(d, u)
RaceNext ==
  \/ Upload
  \/ RaceCreateCheck
  \/ CreateWrite
RaceSpec == ObsInit /\ [][RaceNext]_vars

\* create calls overlapping, the webhook and remove: remove in every job
\* state, next to a second job
DeleteNext ==
  \/ Upload
  \/ RaceCreateCheck
  \/ CreateWrite
  \/ Webhook
  \/ Remove
DeleteSpec == ObsInit /\ [][DeleteNext]_vars

\* upload and the two document writes
DocUpdate ==
  \E id \in DocIds, dto \in UpdateDocumentDto, u \in Users :
    DocumentsService_update(id, dto, u)
DocUpdateStatus ==
  \E id \in DocIds, status \in DocumentStatus, u \in Users :
    DocumentsService_updateStatus(id, status, u)
DocNext ==
  \/ Upload
  \/ DocUpdate
  \/ DocUpdateStatus
DocSpec == ObsInit /\ [][DocNext]_vars

\* the two lists, over documents of several owners and their jobs
ListUpload ==
  \E u \in Users :
    /\ Cardinality(DOMAIN disk) < MaxListDocs
    /\ DocumentsService_create(u)
DocFindAll == \E u \in Users : DocumentsService_findAll(u)
JobFindAll == \E u \in Users : IngestionService_findAll(u)
ListNext ==
  \/ ListUpload
  \/ RaceCreateCheck
  \/ CreateWrite
  \/ DocFindAll
  \/ JobFindAll
ListSpec == ObsInit /\ [][ListNext]_vars

\* the user administration requests, each made by a stored account
UserUpdate ==
  \E id \in UserIds, dto \in UpdateUserDto, a \in DOMAIN users :
    UsersService_update(id, dto, a)
UserRemove ==
  \E id \in UserIds, a \in DOMAIN users : UsersService_remove(id, a)
UserUpdateRole ==
  \E id \in UserIds, role \in UserRole, a \in DOMAIN users :
    UsersService_updateRole(id, role, a)
UserUpdateStatus ==
  \E id \in UserIds, a \in DOMAIN users : UsersService_updateUserStatus(id, a)
UsersNext ==
  \/ UserUpdate
  \/ UserRemove
  \/ UserUpdateRole
  \/ UserUpdateStatus
UsersSpec == ObsInit /\ [][UsersNext]_vars

\* uploads by several owners, create and the removal of documents
DocRemove == \E id \in DocIds, u \in Users : DocumentsService_remove(id, u)
RemoveNext ==
  \/ ListUpload
  \/ CreateCheck
  \/ CreateWrite
  \/ DocRemove
RemoveSpec == ObsInit /\ [][RemoveNext]_vars

\* the requests one at a time: a create call that passed its check writes
\* before any other call starts
SeqCreateCheck ==
  \E d \in DocIds, u \in Users :
    /\ creating = EmptyBag
    /\ PassesCheck(d, u) => nextJob <= MaxRaceJobs
    /\ IngestionService_create_check(d, u)
SeqNext ==
  \/ Upload
  \/ SeqCreateCheck
  \/ CreateWrite
  \/ creating = EmptyBag /\ Update
  \/ creating = EmptyBag /\ Cancel
  \/ creating = EmptyBag /\ Webhook
SeqSpec == Init /\ [][SeqNext]_vars

\* create calls one at a time and the timer callbacks they schedule, with
\* no cancel, admin update, webhook or delete
SchedNext ==
  \/ Upload
  \/ SeqCreateCheck
  \/ CreateWrite
  \/ Timers
SchedSpec == ObsInit /\ [][SchedNext]_vars

\* the read requests on the records that upload and create store
DocFindOne == \E id \in DocIds, u \in Users : DocumentsService_findOne(id, u)
JobFindOne == \E id \in JobIds, u \in Users : IngestionService_findOne(id, u)
ViewNext ==
  \/ Upload
  \/ CreateCheck
  \/ CreateWrite
  \/ DocFindOne
  \/ JobFindOne
ViewSpec == ObsInit /\ [][ViewNext]_vars

\* ------------------------------------------------------------- claims
IsOwnerOrAdmin(u, d) == RoleOf(u) = ADMIN \/ docs[d].uploadedById = u

\* C1: a job whose status is completed, failed or cancelled keeps that
\* status across every admin update and every webhook call on it.
C1_TerminalAbsorbing ==
  [][(/\ last'.op \in {"update", "webhook"}
      /\ last'.id \in DOMAIN jobs
      /\ jobs[last'.id].status \in Terminal)
     => (/\ last'.id \in DOMAIN jobs'
         /\ jobs'[last'.id].status = jobs[last'.id].status)]_vars

\* C2: a job stored as cancelled is still stored as cancelled after any
\* step of its timer callbacks, wherever the cancel fell among them.
C2_NoResurrection ==
  [][\A j \in DOMAIN jobs :
       (/\ jobs[j].status = CANCELLED
        /\ j \in DOMAIN sim
        /\ sim'[j] # sim[j])
       => (j \in DOMAIN jobs' /\ jobs'[j].status = CANCELLED)]_vars

\* C3: a create call by the document's owner or an admin that passed the
\* status check returns the job, stores it pending with startedAt and
\* completedAt unset, and leaves the document processing.
C3_CreateReturnsPending ==
  [][(/\ last'.op = "create"
      /\ nextJob' # nextJob
      /\ IsOwnerOrAdmin(last'.user, last'.id))
     => (/\ last'.outcome = "ok"
         /\ nextJob \in DOMAIN jobs'
         /\ jobs'[nextJob].status = PENDING
         /\ jobs'[nextJob].startedAt = Null
         /\ jobs'[nextJob].completedAt = Null
         /\ docs'[last'.id].status = PROCESSING)]_vars

\* C4: a create, cancel or update call that raises NotFound, Forbidden or
\* BadRequest leaves the job records and the documents as they were.
C4_AllOrNothing ==
  [][(/\ last'.op \in {"create", "cancel", "update"}
      /\ last'.outcome \in {"NotFound", "Forbidden", "BadRequest"})
     => (jobs' = jobs /\ docs' = docs)]_vars

\* C5: cancel of a pending or running job by an admin or by the owner of
\* its document returns the job cancelled with completedAt set, and the
\* document is uploaded afterwards.
C5_CancelReverts ==
  [][(/\ last'.op = "cancel"
      /\ last'.id \in DOMAIN jobs
      /\ jobs[last'.id].status \in {PENDING, RUNNING}
      /\ IsOwnerOrAdmin(last'.user, jobs[last'.id].documentId))
     => (/\ last'.outcome = "ok"
         /\ jobs'[last'.id].status = CANCELLED
         /\ jobs'[last'.id].completedAt # Null
         /\ docs'[jobs[last'.id].documentId].status = UPLOADED)]_vars

\* C6: cancel of a completed or failed job by any actor allowed to view it
\* raises BadRequest and changes neither the job records nor the documents.
C6_CancelTerminalRejected ==
  [][(/\ last'.op = "cancel"
      /\ last'.id \in DOMAIN jobs
      /\ jobs[last'.id].status \in {COMPLETED, FAILED}
      /\ IsOwnerOrAdmin(last'.user, jobs[last'.id].documentId))
     => (/\ last'.outcome = "BadRequest"
         /\ jobs' = jobs
         /\ docs' = docs)]_vars

\* C6 witness: such a cancel has just been rejected, for a non-admin owner
C6_Witness ==
  /\ last.op = "cancel"
  /\ last.outcome = "BadRequest"
  /\ last.id \in DOMAIN jobs
  /\ jobs[last.id].status \in {COMPLETED, FAILED}
  /\ RoleOf(last.user) # ADMIN
  /\ docs[jobs[last.id].documentId].uploadedById = last.user

\* C7 as stated: a create call on a processing document raises BadRequest
\* whoever the actor is, saves no job, schedules no timer and leaves the
\* document processing.
C7_ProcessingRejectedForAnyActor ==
  [][(/\ last'.op = "create"
      /\ nextJob' = nextJob
      /\ last'.id \in DOMAIN docs
      /\ docs[last'.id].status = PROCESSING)
     => (/\ last'.outcome = "BadRequest"
         /\ jobs' = jobs
         /\ sim' = sim
         /\ creating' = creating
         /\ docs'[last'.id].status = PROCESSING)]_vars

\* C7 amended: a create call on a processing document raises BadRequest for
\* an admin and for the document's owner and Forbidden for any other actor;
\* either way it saves no job, schedules no timer and leaves the document
\* processing.
C7_ProcessingRejected ==
  [][(/\ last'.op = "create"
      /\ nextJob' = nextJob
      /\ last'.id \in DOMAIN docs
      /\ docs[last'.id].status = PROCESSING)
     => (/\ last'.outcome = IF IsOwnerOrAdmin(last'.user, last'.id)
                              THEN "BadRequest" ELSE "Forbidden"
         /\ jobs' = jobs
         /\ sim' = sim
         /\ creating' = creating
         /\ docs'[last'.id].status = PROCESSING)]_vars

\* C7 witness: a non-admin owner's create has just been rejected on a
\* processing document
C7_Witness ==
  /\ last.op = "create"
  /\ last.outcome = "BadRequest"
  /\ last.id \in DOMAIN docs
  /\ docs[last.id].status = PROCESSING
  /\ RoleOf(last.user) # ADMIN
  /\ docs[last.id].uploadedById = last.user

\* C8: once both timers of a created job have run with nothing else
\* touching the job, the job is completed with a result payload and its
\* document is processed.
C8_SimulatedLifecycleCompletes ==
  \A j \in DOMAIN sim :
    sim[j].pc = "done"
    => (/\ j \in DOMAIN jobs
        /\ jobs[j].status = COMPLETED
        /\ jobs[j].result # NoText
        /\ docs[jobs[j].documentId].status = PROCESSED)

\* C9: once a job's startedAt is set no step changes its value.
C9_StartedAtWrittenOnce ==
  [][\A j \in (DOMAIN jobs) \cap (DOMAIN jobs') :
       jobs[j].startedAt # Null
       => jobs'[j].startedAt = jobs[j].startedAt]_vars

\* C10: once a job's completedAt is set no step changes its value.
C10_CompletedAtWrittenOnce ==
  [][\A j \in (DOMAIN jobs) \cap (DOMAIN jobs') :
       jobs[j].completedAt # Null
       => jobs'[j].completedAt = jobs[j].completedAt]_vars

\* the jobs of document d that are pending or running
ActiveJobs(d) ==
  {j \in DOMAIN jobs : jobs[j].documentId = d /\ jobs[j].status \notin Terminal}

\* C11: create calls that passed the status check together all write: each
\* write adds one pending job for its document and keeps the jobs already
\* stored, so two overlapping calls leave two non-terminal jobs on one
\* document.
C11_ConcurrentCreatesBothWrite ==
  [][\A c \in BagToSet(creating) :
       (nextJob' # nextJob /\ creating' = creating (-) SetToBag({c}))
       => (/\ DOMAIN jobs' = (DOMAIN jobs) \cup {nextJob}
           /\ nextJob \notin DOMAIN jobs
           /\ jobs'[nextJob].status = PENDING
           /\ jobs'[nextJob].documentId = c.documentId
           /\ \A j \in DOMAIN jobs : jobs'[j] = jobs[j])]_vars

\* C11 witness: two non-terminal jobs on one document, both with their
\* timers scheduled: both calls succeeded, so both passed the check before
\* either set the document processing
C11_Witness ==
  \E d \in DOMAIN docs :
    /\ Cardinality(ActiveJobs(d)) = 2
    /\ ActiveJobs(d) \subseteq DOMAIN sim
    /\ creating = EmptyBag
    /\ last.outcome = "ok"

\* C12: documents findOne raises NotFound for an unknown id whatever the
\* actor, returns the document to an admin and to its owner, and raises
\* Forbidden for anyone else; it changes nothing.
C12_DocumentFindOne ==
  [][last'.op = "docFindOne"
     => (/\ last'.outcome =
              IF last'.id \notin DOMAIN docs THEN "NotFound"
              ELSE IF RoleOf(last'.user) = ADMIN
                      \/ docs[last'.id].uploadedById = last'.user THEN "ok"
              ELSE "Forbidden"
         /\ docs' = docs
         /\ jobs' = jobs)]_vars

\* C12 witness: a non-admin has just been refused a document owned by
\* someone else
C12_Witness ==
  /\ last.op = "docFindOne"
  /\ last.outcome = "Forbidden"
  /\ last.id \in DOMAIN docs
  /\ RoleOf(last.user) # ADMIN
  /\ docs[last.id].uploadedById # last.user

\* C13: ingestion findOne raises NotFound for an unknown job id whatever
\* the actor, returns the job to an admin and to the owner of its document,
\* and raises Forbidden for anyone else; it changes nothing.
C13_JobFindOne ==
  [][last'.op = "findOne"
     => (/\ last'.outcome =
              IF last'.id \notin DOMAIN jobs THEN "NotFound"
              ELSE IF RoleOf(last'.user) = ADMIN
                      \/ docs[jobs[last'.id].documentId].uploadedById = last'.user
                   THEN "ok"
              ELSE "Forbidden"
         /\ docs' = docs
         /\ jobs' = jobs)]_vars

\* C13 witness: a non-admin has just been refused a job on a document
\* owned by another non-admin
C13_Witness ==
  /\ last.op = "findOne"
  /\ last.outcome = "Forbidden"
  /\ last.id \in DOMAIN jobs
  /\ RoleOf(last.user) # ADMIN
  /\ docs[jobs[last.id].documentId].uploadedById # last.user
  /\ RoleOf(docs[jobs[last.id].documentId].uploadedById) # ADMIN

\* C14: existence is checked before role: update, cancel and remove of a
\* job id that resolves to no record raise NotFound, never Forbidden,
\* whoever the actor is.
C14_ExistenceBeforeRole ==
  [][(/\ last'.op \in {"update", "cancel", "remove"}
      /\ last'.id \notin DOMAIN jobs)
     => last'.outcome = "NotFound"]_vars

\* C15: update and remove of a job are admin-only: on an existing job a
\* non-admin, the owner of the job's document included, gets Forbidden
\* and neither the job records nor the documents change.
C15_UpdateRemoveAdminOnly ==
  [][(/\ last'.op \in {"update", "remove"}
      /\ last'.id \in DOMAIN jobs
      /\ RoleOf(last'.user) # ADMIN)
     => (/\ last'.outcome = "Forbidden"
         /\ jobs' = jobs
         /\ docs' = docs)]_vars

\* C15 witness: the owner of a job's document, not an admin, has just been
\* refused the removal of that job, which is still stored
C15_Witness ==
  /\ last.op = "remove"
  /\ last.outcome = "Forbidden"
  /\ last.id \in DOMAIN jobs
  /\ RoleOf(last.user) # ADMIN
  /\ docs[jobs[last.id].documentId].uploadedById = last.user

\* C16: an admin update that takes a non-terminal job to completed sets
\* completedAt and makes the document processed; one that takes it to
\* failed sets completedAt and makes the document failed.
C16_UpdateCascades ==
  [][(/\ last'.op = "update"
      /\ last'.outcome = "ok"
      /\ last'.id \in DOMAIN jobs
      /\ jobs[last'.id].status \notin Terminal
      /\ jobs'[last'.id].status \in {COMPLETED, FAILED})
     => (/\ jobs'[last'.id].completedAt # Null
         /\ docs'[jobs[last'.id].documentId].status =
              IF jobs'[last'.id].status = COMPLETED THEN PROCESSED
              ELSE DOC_FAILED)]_vars

\* C17: handleWebhook and an admin's update write the same job record:
\* for every stored job and every input {status?, errorMessage?, result?}
\* the record the one saves equals the record the other saves (status,
\* errorMessage, result, startedAt, completedAt).
C17_WebhookEqualsUpdate ==
  \A j \in DOMAIN jobs : \A dto \in EveryDto :
    handleWebhook_job(jobs[j], dto) = update_job(jobs[j], dto)

\* C17 witness: a webhook call has just written a job that both carries
\* completedAt and is not terminal, so both timestamp guards matter for the
\* next input
C17_Witness ==
  /\ last.op = "webhook"
  /\ last.outcome = "ok"
  /\ last.id \in DOMAIN jobs
  /\ jobs[last.id].completedAt # Null
  /\ jobs[last.id].status \notin Terminal

\* C18: an admin's remove of a stored job succeeds whatever the job's
\* status, removes exactly that record, and leaves every document and
\* every other job unchanged.
C18_AdminRemove ==
  [][(/\ last'.op = "remove"
      /\ RoleOf(last'.user) = ADMIN
      /\ last'.id \in DOMAIN jobs)
     => (/\ last'.outcome = "ok"
         /\ DOMAIN jobs' = (DOMAIN jobs) \ {last'.id}
         /\ \A j \in DOMAIN jobs' : jobs'[j] = jobs[j]
         /\ docs' = docs)]_vars

\* C18 witness: an admin has just removed one of two stored jobs and the
\* other one is still there
C18_Witness ==
  /\ last.op = "remove"
  /\ last.outcome = "ok"
  /\ RoleOf(last.user) = ADMIN
  /\ nextJob = 3
  /\ last.id \notin DOMAIN jobs
  /\ DOMAIN jobs # {}

\* C19: a non-admin never sets a document's status directly: for every
\* non-admin, the document's owner included, update with a status field
\* and updateStatus raise Forbidden and leave the document (status,
\* description, metadata) as it was.
C19_NonAdminNeverSetsStatus ==
  [][\A id \in DOMAIN docs : \A u \in Users :
       RoleOf(u) # ADMIN =>
         /\ \A dto \in UpdateDocumentDto :
              (dto.status # Absent /\ DocumentsService_update(id, dto, u))
              => (last'.outcome = "Forbidden" /\ docs' = docs)
         /\ \A status \in DocumentStatus :
              DocumentsService_updateStatus(id, status, u)
              => (last'.outcome = "Forbidden" /\ docs' = docs)]_vars

\* C19 witness: the owner of a document, not an admin, has just been refused
\* an update of it; an owner's update is refused only for its status field
C19_Witness ==
  /\ last.op = "docUpdate"
  /\ last.outcome = "Forbidden"
  /\ last.id \in DOMAIN docs
  /\ RoleOf(last.user) # ADMIN
  /\ docs[last.id].uploadedById = last.user
  /\ docs[last.id].metadata # NoText

\* C20: on the simulated path a job is stored as running, with startedAt
\* set, before it is stored as completed: every step that makes a stored
\* job completed finds it running with startedAt set.
C20_RunningBeforeCompleted ==
  [][\A j \in DOMAIN jobs' :
       (jobs'[j].status = COMPLETED
        /\ (j \in DOMAIN jobs => jobs[j].status # COMPLETED))
       => (/\ j \in DOMAIN jobs
           /\ jobs[j].status = RUNNING
           /\ jobs[j].startedAt # Null)]_vars

\* C20 witness: both timers of a job have fired and it is stored completed
C20_Witness ==
  \E j \in DOMAIN jobs :
    /\ j \in DOMAIN sim
    /\ sim[j].pc = "done"
    /\ jobs[j].status = COMPLETED
    /\ jobs[j].startedAt # Null
    /\ jobs[j].startedAt < jobs[j].completedAt

\* the documents and the jobs that belong to u through document ownership
OwnDocs(u) == {d \in DOMAIN docs : docs[d].uploadedById = u}
OwnJobs(u) == {j \in DOMAIN jobs : jobs[j].documentId \in OwnDocs(u)}

\* C21: list is a filter by ownership: for a non-admin, list documents and
\* list jobs return exactly the documents the actor owns and the jobs on
\* them, whatever other users own; for an admin they return every record.
C21_ListFiltersByOwner ==
  [][/\ last'.op = "docFindAll"
        => last'.outcome = IF RoleOf(last'.user) = ADMIN THEN DOMAIN docs
                           ELSE OwnDocs(last'.user)
     /\ last'.op = "findAll"
        => last'.outcome = IF RoleOf(last'.user) = ADMIN THEN DOMAIN jobs
                           ELSE OwnJobs(last'.user)]_vars

\* C21 witness: a non-admin who owns one of two documents, each with a job,
\* has just listed the jobs and got only their own
C21_Witness ==
  /\ last.op = "findAll"
  /\ RoleOf(last.user) # ADMIN
  /\ Cardinality(DOMAIN jobs) = 2
  /\ Cardinality(last.outcome) = 1
  /\ \E d \in DOMAIN docs : docs[d].uploadedById \notin {last.user, "a1"}

\* C22: an admin never deletes or deactivates their own account: remove
\* and updateUserStatus on the actor's own id raise Forbidden and leave the
\* accounts unchanged; an admin's remove of another stored user succeeds and
\* removes exactly that record; for a non-admin both raise Forbidden.
C22_NoSelfDeleteOrDeactivate ==
  [][last'.op \in {"userRemove", "updateUserStatus"}
     => LET a == last'.user
            id == last'.id
        IN /\ (users[a].role # ADMIN \/ id = a)
                => (last'.outcome = "Forbidden" /\ users' = users)
           /\ (/\ last'.op = "userRemove"
               /\ users[a].role = ADMIN
               /\ id # a
               /\ id \in DOMAIN users)
                => (/\ last'.outcome = "ok"
                    /\ DOMAIN users' = (DOMAIN users) \ {id}
                    /\ \A u \in DOMAIN users' : users'[u] = users[u])]_vars

\* C22 witness: an admin has just been refused the removal of their own
\* account, after another account was removed
C22_Witness ==
  /\ last.op = "userRemove"
  /\ last.outcome = "Forbidden"
  /\ last.user = last.id
  /\ last.user \in DOMAIN users
  /\ users[last.user].role = ADMIN
  /\ DOMAIN users # Users

\* C23: a role change never targets the actor's own id: for an admin actor,
\* updateRole on the actor's own id, and update with a role field on the
\* actor's own id, are denied and the actor's role stays as it was.
C23_NoSelfRoleChange ==
  [][\A a \in DOMAIN users :
       users[a].role = ADMIN =>
         /\ \A role \in UserRole :
              UsersService_updateRole(a, role, a)
              => (last'.outcome = "Forbidden" /\ users'[a].role = users[a].role)
         /\ \A dto \in UpdateUserDto :
              (dto.role # Absent /\ UsersService_update(a, dto, a))
              => (last'.outcome = "Forbidden" /\ users'[a].role = users[a].role)]_vars

\* C24: a profile is updated only by the user themselves or an admin, and
\* a role only by an admin: for a non-admin actor, update of another stored
\* user raises Forbidden, and update with a role field raises Forbidden even
\* on the actor's own id; the accounts are unchanged in both cases.
C24_ProfileUpdateSelfOrAdmin ==
  [][(/\ last'.op = "userUpdate"
      /\ last'.id \in DOMAIN users
      /\ users[last'.user].role # ADMIN)
     => \A dto \in UpdateUserDto :
          (/\ (last'.id # last'.user \/ dto.role # Absent)
           /\ UsersService_update(last'.id, dto, last'.user))
          => (last'.outcome = "Forbidden" /\ users' = users)]_vars

\* C24 witness: a non-admin has just been refused an update of their own
\* account, which only a role field causes, after a profile update of
\* theirs went through
C24_Witness ==
  /\ last.op = "userUpdate"
  /\ last.outcome = "Forbidden"
  /\ last.user = last.id
  /\ last.user \in DOMAIN users
  /\ users[last.user].role # ADMIN
  /\ users[last.user].firstName = "Updated"

\* C25: documents remove is for an admin or the owner and removes record
\* and file together: after a remove that succeeded neither the record nor
\* the file is there, and the actor was an admin or the owner; when remove
\* raises NotFound or Forbidden, records and files are unchanged.
C25_RemoveRecordAndBlob ==
  [][last'.op = "docRemove"
     => /\ last'.outcome = "ok"
             => (/\ last'.id \in DOMAIN docs
                 /\ IsOwnerOrAdmin(last'.user, last'.id)
                 /\ last'.id \notin DOMAIN docs'
                 /\ ~disk'[last'.id])
        /\ last'.outcome \in {"NotFound", "Forbidden"}
             => (docs' = docs /\ disk' = disk)
        /\ (last'.id \in DOMAIN docs
            /\ ~IsOwnerOrAdmin(last'.user, last'.id))
             => last'.outcome = "Forbidden"]_vars

\* C25 witness: an owner who is not an admin has just removed one of two
\* documents; its record and its file are gone, the other's are there
C25_Witness ==
  /\ last.op = "docRemove"
  /\ last.outcome = "ok"
  /\ RoleOf(last.user) # ADMIN
  /\ last.id \notin DOMAIN docs
  /\ ~disk[last.id]
  /\ \E d \in DOMAIN docs : disk[d]

\* C26: the webhook needs no actor and fails only on an unknown id: on a
\* stored job id handleWebhook returns the job as updated by its input, and
\* on an id that resolves to no job it raises NotFound and changes no job
\* and no document.
C26_WebhookFailsOnlyOnUnknownId ==
  [][last'.op = "webhook"
     => IF last'.id \in DOMAIN jobs
          THEN /\ last'.outcome = "ok"
               /\ \E dto \in UpdateIngestionJobDto :
                    jobs' = Save(jobs, last'.id,
                                 handleWebhook_job(jobs[last'.id], dto))
          ELSE /\ last'.outcome = "NotFound"
               /\ jobs' = jobs
               /\ docs' = docs]_vars

\* C26 witness: a webhook call on an id that resolves to no job has just
\* raised NotFound while a job and its document are stored
C26_Witness ==
  /\ last.op = "webhook"
  /\ last.outcome = "NotFound"
  /\ last.id \notin DOMAIN jobs
  /\ DOMAIN jobs # {}
  /\ DOMAIN docs # {}

\* C27: with the calls running one at a time, the status check of create
\* prevents duplicate jobs in flight: every document has at most one job
\* that is pending or running.
C27_OneActiveJobPerDocument ==
  \A d \in DOMAIN docs : Cardinality(ActiveJobs(d)) <= 1

\* C28: a processing document has an active job: with no delete of jobs,
\* no direct document-status update and no overlapping creates, every
\* document whose status is processing has a job that is pending or running.
C28_ProcessingHasActiveJob ==
  \A d \in DOMAIN docs :
    docs[d].status = PROCESSING => ActiveJobs(d) # {}

\* C29: cancel takes effect only on a pending or running job: cancel of a
\* job that is already cancelled changes neither the job records (status,
\* completedAt) nor any document's status.
C29_CancelOfCancelledIsNoOp ==
  [][(/\ last'.op = "cancel"
      /\ last'.id \in DOMAIN jobs
      /\ jobs[last'.id].status = CANCELLED)
     => (jobs' = jobs /\ docs' = docs)]_vars

\* C30: job status only moves forward: no step of an admin update, the
\* webhook, cancel or a timer callback changes a job's status from running
\* back to pending.
C30_NoRunningToPending ==
  [][\A j \in DOMAIN jobs :
       (jobs[j].status = RUNNING /\ j \in DOMAIN jobs')
       => jobs'[j].status # PENDING]_vars

\* C31: the webhook never writes document status: whatever the stored job
\* and the input, a transition to completed or failed included,
\* handleWebhook leaves every document as it was.
C31_WebhookLeavesDocuments ==
  [][last'.op = "webhook" => docs' = docs]_vars

\* C31 witness: a webhook call has just made a job completed or failed and
\* the job's document is still processing
C31_Witness ==
  /\ last.op = "webhook"
  /\ last.outcome = "ok"
  /\ last.id \in DOMAIN jobs
  /\ jobs[last.id].status \in {COMPLETED, FAILED}
  /\ docs[jobs[last.id].documentId].status = PROCESSING

\* C32: create by an actor who is neither an admin nor the owner of the
\* document raises Forbidden, writes no job record, schedules no timer and
\* leaves the document as it was (the call ends at the check).
C32_CreateByStrangerForbidden ==
  [][(/\ last'.op = "create"
      /\ last'.id \in DOMAIN docs
      /\ ~IsOwnerOrAdmin(last'.user, last'.id))
       => /\ last'.outcome = "Forbidden"
          /\ jobs' = jobs
          /\ nextJob' = nextJob
          /\ sim' = sim
          /\ creating' = creating
          /\ docs' = docs]_vars

\* C32 witness: a create by a non-admin who does not own the existing
\* document has just been refused
C32_Witness ==
  /\ last.op = "create"
  /\ last.id \in DOMAIN docs
  /\ ~IsOwnerOrAdmin(last.user, last.id)
  /\ last.outcome = "Forbidden"

\* C33: an admin update that makes a pending or running job cancelled
\* leaves the job's document uploaded, never failed, as cancel does.
C33_UpdateToCancelledReverts ==
  [][(/\ last'.op = "update"
      /\ last'.outcome = "ok"
      /\ last'.id \in DOMAIN jobs
      /\ jobs[last'.id].status \in {PENDING, RUNNING}
      /\ jobs'[last'.id].status = CANCELLED)
       => docs'[jobs[last'.id].documentId].status = UPLOADED]_vars

\* C34: a deleted job is never re-created: an id that was generated and is
\* no longer in the store (an admin delete removed it) is not written back
\* by any later step, a timer callback of that job included.
C34_DeletedJobStaysDeleted ==
  [][\A j \in JobIds :
       (j < nextJob /\ j \notin DOMAIN jobs) => j \notin DOMAIN jobs']_vars

\* C35: every terminal job has a completion time: in every reachable
\* state a job that is completed, failed or cancelled has completedAt set,
\* whether cancel, an admin update, the webhook or a timer made it so.
C35_TerminalHasCompletedAt ==
  \A j \in DOMAIN jobs :
    jobs[j].status \in Terminal => jobs[j].completedAt # Null

\* C35 witness: a failed job (only an admin update or the webhook makes a
\* job failed) that carries its completion time
C35_Witness ==
  \E j \in DOMAIN jobs :
    jobs[j].status = FAILED /\ jobs[j].completedAt # Null

\* C36: every running job has a start time: in every reachable state a job
\* that is running has startedAt set, whether an admin update, the webhook
\* or a timer made it so.
C36_RunningHasStartedAt ==
  \A j \in DOMAIN jobs :
    jobs[j].status = RUNNING => jobs[j].startedAt # Null

\* C36 witness: a running job with its start time whose first timer callback
\* has not run yet, so a request made it running
C36_Witness ==
  \E j \in DOMAIN jobs :
    /\ jobs[j].status = RUNNING
    /\ jobs[j].startedAt # Null
    /\ j \in DOMAIN sim
    /\ sim[j].pc = "t1"

\* C37: timers are scheduled only by a create call that returns: a timer
\* chain starts only in the step of a create that returned the job, and a
\* job without a timer chain (written by a create that then raised) is
\* pending and unstarted in every state when only creates and timers run.
C37_TimersOnlyAfterSuccessfulCreate ==
  /\ [][\A j \in JobIds :
          (j \in DOMAIN sim' /\ j \notin DOMAIN sim)
            => (last'.op = "create" /\ last'.outcome = "ok")]_vars
  /\ [](\A j \in DOMAIN jobs :
          j \notin DOMAIN sim
            => /\ jobs[j].status = PENDING
               /\ jobs[j].startedAt = Null
               /\ jobs[j].completedAt = Null)

\* C37 witness: the job of a create that raised is still pending with no
\* timer chain after the chain of a later, successful create has completed
\* its job
C37_Witness ==
  \E j, k \in DOMAIN jobs :
    /\ j \notin DOMAIN sim
    /\ jobs[j].status = PENDING
    /\ k \in DOMAIN sim
    /\ sim[k].pc = "done"
    /\ jobs[k].status = COMPLETED

====
